---------------------------- MODULE Spec2Model ----------------------------
(***************************************************************************)
(* Model of the energy forecasting backend:                                *)
(*   forecasting_algorithms.py  EnergyForecastingAlgorithms (six           *)
(*                              forecasters and the ensemble combiner)     *)
(*   simple_main.py             enhanced_prediction (length check, feature *)
(*                              table construction, call of the combiner)  *)
(*                                                                         *)
(* Numbers.  The Python code computes with IEEE doubles.  Here a float is  *)
(* an integer count of units (one unit is one hundredth of the consumption *)
(* unit).  The right-hand side of every assignment is evaluated exactly    *)
(* over the rationals and then rounded to the nearest unit (RoundDiv); the *)
(* only irrational operation, the square root in np.std, is rounded up, so *)
(* that a positive spread is never reported as 0, as in the code.          *)
(* Decimal coefficients are kept as numerator/denominator pairs            *)
(* (alpha = 0.3 is 3/10).  Python's 0-based indices are kept: At(s, i) is  *)
(* s[i] of the source.                                                     *)
(***************************************************************************)
EXTENDS Integers, Sequences, FiniteSets, TLC

-----------------------------------------------------------------------------
(* Arithmetic helpers *)

\* a / b rounded to the nearest integer (b > 0)
RoundDiv(a, b) == (2 * a + b) \div (2 * b)

Max(a, b) == IF a >= b THEN a ELSE b

Min(a, b) == IF a <= b THEN a ELSE b

\* data[i] with Python's 0-based index
At(s, i) == s[i + 1]

\* data[lo:hi] of Python for 0 <= lo: the slice ends at the end of the list
Slice(s, lo, hi) == SubSeq(s, lo + 1, Min(hi, Len(s)))

RECURSIVE SumRange(_, _, _)
\* s[lo] + ... + s[hi - 1]; the range is halved to keep the evaluation shallow
SumRange(s, lo, hi) ==
    IF hi <= lo THEN 0
    ELSE IF hi = lo + 1 THEN At(s, lo)
    ELSE LET mid == (lo + hi) \div 2
         IN  SumRange(s, lo, mid) + SumRange(s, mid, hi)

\* sum(data)
Sum(s) == SumRange(s, 0, Len(s))

\* np.mean(data) for a non-empty list
Mean(s) == RoundDiv(Sum(s), Len(s))

RECURSIVE CeilSqrtFrom(_, _, _)
CeilSqrtFrom(lo, hi, x) ==
    IF lo >= hi THEN lo
    ELSE LET mid == (lo + hi) \div 2
         IN  IF mid * mid >= x THEN CeilSqrtFrom(lo, mid, x)
                               ELSE CeilSqrtFrom(mid + 1, hi, x)

\* least s with s * s >= x   (x >= 0)
CeilSqrt(x) == CeilSqrtFrom(0, 46340, x)

-----------------------------------------------------------------------------
(* Parameters of the forecasters (the defaults of the method signatures) *)

window == 24
season_length == 24
period == 24
alpha == <<3, 10>>
beta == <<1, 10>>
gamma == <<1, 10>>
p == 1
d == 1
q == 1
MinPoints == 10

-----------------------------------------------------------------------------
(* EnergyForecastingAlgorithms *)

\* variant: the mean of the whole series whatever its length
moving_average_all(data) == Mean(data)

\* the branch moving_average takes: "fallback" is the mean of a series shorter
\* than the window
MAPath(data) == IF Len(data) < window THEN "fallback" ELSE "main"

\* moving_average(data, window)
moving_average(data) ==
    IF MAPath(data) = "fallback"
    THEN Mean(data)
    ELSE Mean(Slice(data, Len(data) - window, Len(data)))

\* one iteration of the loop of exponential_smoothing; st.i is the index of
\* the value consumed
ESStep(st, value, a) ==
    [i      |-> st.i + 1,
     result |-> RoundDiv(a[1] * value + (a[2] - a[1]) * st.result, a[2])]

RECURSIVE ESLoop(_, _, _, _)
\* the loop of exponential_smoothing run from index st.i up to index hi - 1
\* (the range is halved to keep the evaluation shallow)
ESLoop(data, a, st, hi) ==
    IF st.i >= hi THEN st
    ELSE IF st.i + 1 = hi THEN ESStep(st, At(data, st.i), a)
    ELSE ESLoop(data, a, ESLoop(data, a, st, (st.i + hi) \div 2), hi)

\* the branch exponential_smoothing takes: `if not data: return 0.0`
ESPath(data) == IF Len(data) = 0 THEN "empty" ELSE "main"

\* exponential_smoothing(data, alpha)
exponential_smoothing(data, a) ==
    IF ESPath(data) = "empty" THEN 0
    ELSE ESLoop(data, a, [i |-> 1, result |-> At(data, 0)], Len(data)).result

\* Holt-Winters: the objects before the loop: the list data passed in, the
\* new list seasonal, the floats level and trend; i is the loop index
HWInit(data) ==
    LET first  == Slice(data, 0, season_length)
        second == Slice(data, season_length, 2 * season_length)
        level  == Mean(first)
    IN  [i        |-> season_length,
         data     |-> data,
         level    |-> level,
         trend    |-> RoundDiv(Sum(second) * Len(first) - Sum(first) * Len(second),
                               Len(first) * Len(second) * season_length),
         seasonal |-> [k \in 0 .. season_length - 1 |-> At(data, k) - level]]

\* variant: the seasonal list indexed by the loop index itself
HWSlot_raw(i) == i

\* Holt-Winters: the index into seasonal used by iteration i of the loop
HWSlot(i) == i % season_length

\* Holt-Winters: the iteration of the loop for index st.i; it reads data[i]
\* and writes level, trend and seasonal[i % season_length]
HWStep(st) ==
    LET x          == At(st.data, st.i)
        s          == HWSlot(st.i)
        prev_level == st.level
        level      == RoundDiv(alpha[1] * (x - st.seasonal[s])
                               + (alpha[2] - alpha[1]) * (st.level + st.trend), alpha[2])
        trend      == RoundDiv(beta[1] * (level - prev_level)
                               + (beta[2] - beta[1]) * st.trend, beta[2])
        seas       == RoundDiv(gamma[1] * (x - level)
                               + (gamma[2] - gamma[1]) * st.seasonal[s], gamma[2])
    IN  [i |-> st.i + 1, data |-> st.data, level |-> level, trend |-> trend,
         seasonal |-> [st.seasonal EXCEPT ![s] = seas]]

RECURSIVE HWLoop(_, _)
\* Holt-Winters: the loop run from index st.i up to index hi - 1
\* (the range is halved to keep the evaluation shallow)
HWLoop(st, hi) ==
    IF st.i >= hi THEN st
    ELSE IF st.i + 1 = hi THEN HWStep(st)
    ELSE HWLoop(HWLoop(st, (st.i + hi) \div 2), hi)

\* Holt-Winters: the objects when the loop has ended
HWFinal(data) == HWLoop(HWInit(data), Len(data))

\* Holt-Winters: level, trend and seasonal as they are before iteration k of
\* the loop, for k from season_length to len(data); the entry for len(data)
\* holds the values the loop ends with
HWHistory(data) ==
    [k \in season_length .. Len(data) |->
        LET st == HWLoop(HWInit(data), k)
        IN  [level |-> st.level, trend |-> st.trend, seasonal |-> st.seasonal]]

\* variant: the seasonal slot of the hour that is forecast
HWRecurrence_slot(data) ==
    LET st == HWFinal(data)
    IN  st.level + st.trend + st.seasonal[Len(data) % season_length]

\* the level + trend + seasonal[0] returned after the loop
HWRecurrence(data) ==
    LET st == HWFinal(data)
    IN  st.level + st.trend + st.seasonal[0]

\* variant: the short-series test written as len(data) <= season_length
holt_winters_short(data) ==
    IF Len(data) <= season_length
    THEN exponential_smoothing(data, alpha)
    ELSE HWRecurrence(data)

\* the branch holt_winters takes: "fallback" is exponential smoothing for a
\* series shorter than two seasons
HWPath(data) == IF Len(data) < season_length * 2 THEN "fallback" ELSE "main"

\* holt_winters(data)
holt_winters(data) ==
    IF HWPath(data) = "fallback"
    THEN exponential_smoothing(data, alpha)
    ELSE HWRecurrence(data)

\* the list passed to holt_winters, after the call
HWData(data) ==
    IF HWPath(data) = "fallback" THEN data ELSE HWFinal(data).data


\* the feature columns of linear_regression_forecast
features == <<"hour", "day_of_week", "day_of_year", "temperature", "humidity">>

\* df[name] as a list
Column(df, name) == [k \in 1 .. Len(df) |-> df[k][name]]

\* element-wise product of two columns
Times(xs, ys) == [k \in 1 .. Len(xs) |-> xs[k] * ys[k]]

\* n * sum((x - mean(x))^2) and n * sum((x - mean(x)) * (y - mean(y)))
SpreadN(xs) == Len(xs) * Sum(Times(xs, xs)) - Sum(xs) * Sum(xs)
CovarN(xs, ys) == Len(xs) * Sum(Times(xs, ys)) - Sum(xs) * Sum(ys)

\* the feature columns that are not constant
Varying(df) == {f \in {features[k] : k \in 1 .. Len(features)} : SpreadN(Column(df, f)) # 0}

\* LinearRegression().fit(X, y).predict(row): ordinary least squares with an
\* intercept.  A constant column gets coefficient 0 (least-norm solution), so
\* with at most one varying column v the fit is
\*    mean(y) + (row[v] - mean(x)) * cov(x, y) / var(x),
\* computed here exactly and rounded once.  The products are split into
\* quotient and remainder to stay inside 32-bit integers.
OLSPredict(df, ys, row) ==
    LET n == Len(df)
    IN  IF Varying(df) = {} THEN RoundDiv(Sum(ys), n)
        ELSE LET v   == CHOOSE f \in Varying(df) : TRUE
                 xs  == Column(df, v)
                 S   == SpreadN(xs)
                 B   == CovarN(xs, ys)
                 A   == n * row[v] - Sum(xs)
                 quo == B \div S
                 rem == B % S
             IN  (2 * Sum(ys) + 2 * A * quo + ((2 * A * rem) \div S) + n) \div (2 * n)

\* X = df[features].fillna(df[features].mean()): a new frame with the feature
\* columns (the frames of the model hold no missing value, so nothing is filled)
FeatureFrame(df) ==
    [k \in 1 .. Len(df) |-> [f \in {features[j] : j \in 1 .. Len(features)} |-> df[k][f]]]

\* variant: last_row is a view of df, so the write to hour reaches df
LRFrames_view(df) ==
    LET last == df[Len(df)]
    IN  [df       |-> [df EXCEPT ![Len(df)].hour = (last.hour + 1) % 24],
         X        |-> [k \in 1 .. Len(df) |->
                          [f \in {features[j] : j \in 1 .. Len(features)} |-> df[k][f]]],
         last_row |-> [f \in {features[j] : j \in 1 .. Len(features)} |->
                          IF f = "hour" THEN (last.hour + 1) % 24 ELSE last[f]]]

\* the frames after  last_row = X.iloc[-1:].copy()  and
\* last_row['hour'] = (last_row['hour'] + 1) % 24 : the write goes to the copy
LRFrames(df) ==
    LET X    == FeatureFrame(df)
        last == X[Len(X)]
    IN  [df       |-> df,
         X        |-> X,
         last_row |-> [last EXCEPT !.hour = (last.hour + 1) % 24]]

\* the branch linear_regression_forecast takes: "fallback" is the mean of a
\* frame of fewer than 10 rows
LRPath(df) == IF Len(df) < MinPoints THEN "fallback" ELSE "main"

\* linear_regression_forecast(df).  The confidence is kept symbolic ("0.5" for
\* the short-series answer, "r2" for model.score(X, y)) and the coefficients
\* of feature_importance are left out.
linear_regression_forecast(df) ==
    IF LRPath(df) = "fallback"
    THEN [prediction |-> Mean(Column(df, "consumption")), confidence |-> "0.5"]
    ELSE LET fr == LRFrames(df)
             y  == Column(fr.df, "consumption")
         IN  [prediction |-> Max(0, OLSPredict(fr.X, y, fr.last_row)),
              confidence |-> "r2"]

\* the frame passed to linear_regression_forecast, after the call
LRData(df) == IF LRPath(df) = "fallback" THEN df ELSE LRFrames(df).df

\* the slice data_array[start:end] averaged for trend[i]
SDWindow(data, i) ==
    [start |-> Max(0, i - period \div 2),
     end   |-> Min(Len(data), i + period \div 2 + 1)]

\* trend[i] of seasonal_decomposition_forecast: centred moving average
SDTrend(data, i) ==
    LET w == SDWindow(data, i)
    IN  Mean(Slice(data, w.start, w.end))

\* the list trend, entry k for position k - 1, each value with the bounds of
\* the slice it is the mean of
SDTrendList(data) ==
    [k \in 1 .. Len(data) |->
        [start |-> SDWindow(data, k - 1).start,
         end   |-> SDWindow(data, k - 1).end,
         value |-> SDTrend(data, k - 1)]]

RECURSIVE SDDetrendedSum_raw(_, _)
\* variant: the seasonal means taken over the series itself, not the detrended one
SDDetrendedSum_raw(data, k) ==
    IF k >= Len(data) THEN 0
    ELSE At(data, k) + SDDetrendedSum_raw(data, k + period)

RECURSIVE SDDetrendedSum(_, _)
\* sum(detrended[k::period]) for k >= 0
SDDetrendedSum(data, k) ==
    IF k >= Len(data) THEN 0
    ELSE (At(data, k) - SDTrend(data, k)) + SDDetrendedSum(data, k + period)

\* len(detrended[i::period])
SDCount(data, i) == IF i >= Len(data) THEN 0 ELSE (Len(data) - 1 - i) \div period + 1

\* seasonal[i] of seasonal_decomposition_forecast
SDSeasonal(data, i) ==
    IF SDCount(data, i) > 0 THEN RoundDiv(SDDetrendedSum(data, i), SDCount(data, i)) ELSE 0

\* the branch seasonal_decomposition_forecast takes: "fallback" is the mean of
\* a series shorter than three periods
SDPath(data) == IF Len(data) < period * 3 THEN "fallback" ELSE "main"

\* seasonal_decomposition_forecast(data)
seasonal_decomposition_forecast(data) ==
    IF SDPath(data) = "fallback"
    THEN [prediction |-> Mean(data), trend |-> 0, seasonal |-> 0,
          trend_direction |-> "none"]
    ELSE LET n             == Len(data)
             last          == SDTrend(data, n - 1)
             before        == SDTrend(data, n - 2)
             next_trend    == IF n > 1 THEN last + (last - before) ELSE last
             next_seasonal == SDSeasonal(data, n % period)
         IN  [prediction |-> Max(0, next_trend + next_seasonal),
              trend |-> next_trend, seasonal |-> next_seasonal,
              trend_direction |-> IF n > 1 /\ last > before THEN "increasing"
                                                            ELSE "decreasing"]

\* np.diff(data)
Diff(data) == [k \in 1 .. Len(data) - 1 |-> data[k + 1] - data[k]]

RECURSIVE DiffTimes(_, _)
DiffTimes(data, k) == IF k = 0 THEN data ELSE DiffTimes(Diff(data), k - 1)

RECURSIVE ARSum_front(_, _, _)
\* variant: the differences taken from the front, diff[i - 1] for diff[-i]
ARSum_front(diff, lo, hi) ==
    IF lo > hi THEN 0
    ELSE (2 ^ (hi - lo)) * diff[lo] + ARSum_front(diff, lo + 1, hi)

RECURSIVE ARSum(_, _, _)
\* 2^hi * sum(0.5^i * diff[-i] for i in lo..hi)
ARSum(diff, lo, hi) ==
    IF lo > hi THEN 0
    ELSE (2 ^ (hi - lo)) * diff[Len(diff) + 1 - lo] + ARSum(diff, lo + 1, hi)

\* the branch arima_simple takes: "fallback" is the mean of a series too short
\* to difference, "last" the last value when too few differences are left
ARPath(data) ==
    IF Len(data) < Max(p, q) + d THEN "fallback"
    ELSE IF Len(DiffTimes(data, d)) < Max(p, q) THEN "last"
    ELSE "main"

\* arima_simple(data)
arima_simple(data) ==
    IF ARPath(data) = "fallback" THEN Mean(data)
    ELSE LET diff_data == DiffTimes(data, d)
         IN  IF ARPath(data) = "last" THEN data[Len(data)]
             ELSE LET hi == Min(p + 1, Len(diff_data) + 1) - 1
                  IN  Max(0, RoundDiv((2 ^ hi) * data[Len(data)]
                                      + ARSum(diff_data, 1, hi), 2 ^ hi))

\* the order in which ensemble_forecast fills the predictions dict
Methods == <<"moving_average", "exponential_smoothing", "holt_winters", "arima",
             "linear_regression", "seasonal_decomposition">>

MethodSet == {Methods[k] : k \in 1 .. Len(Methods)}

\* variant: a weight table that sums to 1.10
weights_heavy ==
    [moving_average |-> 15, exponential_smoothing |-> 20, holt_winters |-> 25,
     linear_regression |-> 20, seasonal_decomposition |-> 15, arima |-> 15]

\* the weight table, in hundredths
weights == [moving_average |-> 15, exponential_smoothing |-> 20, holt_winters |-> 25,
            linear_regression |-> 20, seasonal_decomposition |-> 15, arima |-> 5]

RECURSIVE WeightedSum_skip(_, _, _)
\* variant: the first method of the dict is left out of the sum
WeightedSum_skip(pred, w, k) ==
    IF k <= 1 THEN 0
    ELSE pred[Methods[k]] * w[Methods[k]] + WeightedSum_skip(pred, w, k - 1)

RECURSIVE WeightedSum(_, _, _)
\* 100 * sum(predictions[method] * weights[method] for method in predictions)
WeightedSum(pred, w, k) ==
    IF k = 0 THEN 0
    ELSE pred[Methods[k]] * w[Methods[k]] + WeightedSum(pred, w, k - 1)

\* np.std(pred_values): population standard deviation, rounded up.
\* With T = sum(v), 36 * n * var = sum((n * v - T)^2) for n = 6 values.
Std(vals) ==
    LET n   == Len(vals)
        T   == Sum(vals)
        dev == [k \in 1 .. n |-> n * vals[k] - T]
        D   == Sum(Times(dev, dev))
    IN  CeilSqrt((D + n * n * n - 1) \div (n * n * n))

\* variant: the factor 1.96 applied to the lower bound only
Interval_lopsided(center, std) ==
    [lower |-> center - RoundDiv(196 * std, 100),
     upper |-> center + std]

\* confidence_interval: center -/+ 1.96 * std
Interval(center, std) ==
    [lower |-> center - RoundDiv(196 * std, 100),
     upper |-> center + RoundDiv(196 * std, 100)]

\* the frame passed to ensemble_forecast, after the call: the univariate
\* forecasters work on the new list df['consumption'].tolist(), the regression
\* on df itself
EnsembleData(df) == LRData(df)

\* ensemble_forecast(df)
ensemble_forecast(df) ==
    LET consumption_data == Column(df, "consumption")
        lr_result        == linear_regression_forecast(df)
        seasonal_result  == seasonal_decomposition_forecast(consumption_data)
        predictions      ==
            [moving_average         |-> moving_average(consumption_data),
             exponential_smoothing  |-> exponential_smoothing(consumption_data, alpha),
             holt_winters           |-> holt_winters(consumption_data),
             arima                  |-> arima_simple(consumption_data),
             linear_regression      |-> lr_result.prediction,
             seasonal_decomposition |-> seasonal_result.prediction]
        ensemble_prediction ==
            RoundDiv(WeightedSum(predictions, weights, Len(Methods)), 100)
        pred_values         == [k \in 1 .. Len(Methods) |-> predictions[Methods[k]]]
        prediction_std      == Std(pred_values)
    IN  [ensemble_prediction    |-> ensemble_prediction,
         individual_predictions |-> predictions,
         confidence_interval    |-> Interval(ensemble_prediction, prediction_std),
         prediction_variance    |-> prediction_std,
         algorithm_weights      |-> weights,
         linear_regression_details |-> lr_result,
         seasonal_analysis      |-> seasonal_result]

-----------------------------------------------------------------------------
(* The subscripts evaluated and the branches taken by a call *)

\* the evaluation of list[index] on a list or array of len elements
Acc(list, len, index) == [list |-> list, len |-> len, index |-> index]

\* a subscript raises IndexError unless  -len <= index < len
InBounds(acc) == -acc.len <= acc.index /\ acc.index < acc.len

\* exponential_smoothing: data[0]; the loop walks the slice data[1:]
ESAccesses(data) ==
    IF ESPath(data) = "empty" THEN {} ELSE {Acc("data", Len(data), 0)}

\* holt_winters: data[i] for i in range(season_length) when seasonal is built,
\* data[i] and seasonal[i % season_length] in the loop, seasonal[0] at the end
HWAccesses(data) ==
    IF HWPath(data) = "fallback" THEN ESAccesses(data)
    ELSE {Acc("data", Len(data), i) : i \in 0 .. Len(data) - 1}
         \cup {Acc("hw_seasonal", season_length, HWSlot(i)) :
                   i \in season_length .. Len(data) - 1}
         \cup {Acc("hw_seasonal", season_length, 0)}

\* seasonal_decomposition_forecast: seasonal[i] for i in range(period),
\* trend[-1], trend[-2] when len(trend) > 1, seasonal[len(data) % period]
SDAccesses(data) ==
    IF SDPath(data) = "fallback" THEN {}
    ELSE {Acc("sd_seasonal", period, i) : i \in 0 .. period - 1}
         \cup {Acc("trend", Len(data), -1)}
         \cup (IF Len(data) > 1 THEN {Acc("trend", Len(data), -2)} ELSE {})
         \cup {Acc("sd_seasonal", period, Len(data) % period)}

\* arima_simple: data[-1], and diff_data[-i] in the loop of the AR component
ARAccesses(data) ==
    IF ARPath(data) = "fallback" THEN {}
    ELSE IF ARPath(data) = "last" THEN {Acc("data", Len(data), -1)}
    ELSE LET diff_data == DiffTimes(data, d)
         IN  {Acc("diff_data", Len(diff_data), -i) :
                 i \in 1 .. Min(p + 1, Len(diff_data) + 1) - 1}
             \cup {Acc("data", Len(data), -1)}

\* the branch a method takes on the series data (the frame df for the regression)
MethodPath(m, data, df) ==
    CASE m = "moving_average"         -> MAPath(data)
      [] m = "exponential_smoothing"  -> ESPath(data)
      [] m = "holt_winters"           -> HWPath(data)
      [] m = "arima"                  -> ARPath(data)
      [] m = "linear_regression"      -> LRPath(df)
      [] m = "seasonal_decomposition" -> SDPath(data)

\* the subscripts a method evaluates (moving_average and the regression take
\* slices only, and a slice never raises)
MethodAccesses(m, data) ==
    CASE m = "exponential_smoothing"  -> ESAccesses(data)
      [] m = "holt_winters"           -> HWAccesses(data)
      [] m = "arima"                  -> ARAccesses(data)
      [] m = "seasonal_decomposition" -> SDAccesses(data)
      [] OTHER                        -> {}

\* the key of the predictions dict that belongs to a directly callable method
OpMethod ==
    [moving_average                  |-> "moving_average",
     exponential_smoothing           |-> "exponential_smoothing",
     holt_winters                    |-> "holt_winters",
     arima_simple                    |-> "arima",
     linear_regression_forecast      |-> "linear_regression",
     seasonal_decomposition_forecast |-> "seasonal_decomposition"]

\* no method has run
NoTrace ==
    [path |-> [m \in {} |-> "main"], accesses |-> {}, trend |-> <<>>, hw |-> <<>>]

\* the list trend a method builds: only the seasonal decomposition of a
\* series of three periods or more builds one
MethodTrend(m, data) ==
    IF m = "seasonal_decomposition" /\ SDPath(data) = "main"
    THEN SDTrendList(data)
    ELSE <<>>

\* the values the loop of a method goes through: only holt_winters on a
\* series of two seasons or more runs its loop (nothing is kept of a loop
\* that a subscript out of bounds ends)
MethodHistory(m, data) ==
    IF /\ m = "holt_winters"
       /\ HWPath(data) = "main"
       /\ \A acc \in HWAccesses(data) : InBounds(acc)
    THEN HWHistory(data)
    ELSE <<>>

\* what a call of o with argument a does: the branch of every method it runs,
\* the subscripts they evaluate, the trend list built and the values the
\* Holt-Winters loop goes through; ensemble_forecast runs all six methods on
\* df['consumption'].tolist() and df
Trace(o, a) ==
    IF o = "ensemble_forecast"
    THEN LET data == Column(a, "consumption")
         IN  [path     |-> [m \in MethodSet |-> MethodPath(m, data, a)],
              accesses |-> UNION {MethodAccesses(m, data) : m \in MethodSet},
              trend    |-> MethodTrend("seasonal_decomposition", data),
              hw       |-> MethodHistory("holt_winters", data)]
    ELSE LET m    == OpMethod[o]
             data == IF o = "linear_regression_forecast"
                     THEN Column(a, "consumption") ELSE a
         IN  [path     |-> [x \in {m} |-> MethodPath(m, data, a)],
              accesses |-> MethodAccesses(m, data),
              trend    |-> MethodTrend(m, data),
              hw       |-> MethodHistory(m, data)]

\* a subscript out of bounds ends the call with IndexError
Raises(tr) == \E acc \in tr.accesses : ~InBounds(acc)

-----------------------------------------------------------------------------
(* simple_main.py *)

\* getattr(point, name, default) for the optional attributes of a point
GetAttr(point, name, default) ==
    IF name \in DOMAIN point.extra THEN point.extra[name] ELSE default

\* the row enhanced_prediction appends to df_data for one point
Row(point) ==
    [consumption |-> point.consumption,
     hour        |-> point.hour,
     day_of_week |-> point.dayofweek,
     day_of_year |-> point.dayofyear,
     month       |-> point.month,
     temperature |-> GetAttr(point, "temperature", 20),
     humidity    |-> GetAttr(point, "humidity", 50)]

\* pd.DataFrame(df_data)
Frame(data) == [k \in 1 .. Len(data) |-> Row(data[k])]

\* variant: the length check written with <= instead of <
enhanced_prediction_le(data) ==
    IF Len(data) <= MinPoints
    THEN [error |-> "ValueError", result |-> <<>>, trace |-> NoTrace, df |-> <<>>]
    ELSE [error |-> "none", result |-> ensemble_forecast(Frame(data)),
          trace |-> Trace("ensemble_forecast", Frame(data)), df |-> Frame(data)]

\* enhanced_prediction(data): the raised error, or the combiner's result
enhanced_prediction(data) ==
    IF Len(data) < MinPoints
    THEN [error |-> "ValueError", result |-> <<>>, trace |-> NoTrace, df |-> <<>>]
    ELSE LET frame == Frame(data)
             tr    == Trace("ensemble_forecast", frame)
         IN  IF Raises(tr)
             THEN [error |-> "IndexError", result |-> <<>>, trace |-> tr,
                   df |-> frame]
             ELSE [error |-> "none", result |-> ensemble_forecast(frame),
                   trace |-> tr, df |-> frame]

-----------------------------------------------------------------------------
(* Bounds and inputs *)

\* longest series
MaxLen == 74
\* largest consumption value, in units
Top == 1000
\* the lengths tried: every length up to 12, the lengths within 2 of a
\* multiple of 12 (the thresholds of the code are 2, 10, 24, 48 and 72), and
\* the longest one
Lengths ==
    {n \in 0 .. MaxLen : n <= 12 \/ n % 12 \in {0, 1, 2, 10, 11} \/ n = MaxLen}

Shapes == {"flat", "zero", "low", "count", "rise", "fall", "cliff", "daily", "spike"}

\* consumption of point i (0-based) of a series of the given shape
Shape(kind, i) ==
    CASE kind = "flat"  -> Top
      [] kind = "zero"  -> 0
      [] kind = "low"   -> 7
      [] kind = "count" -> 100 * ((i % 24) + 1)
      [] kind = "rise"  -> 10 * i
      [] kind = "fall"  -> Top - 10 * i
      [] kind = "cliff" -> IF i < season_length THEN Top ELSE 0
      [] kind = "daily" -> IF (i % 24) \in {7, 8, 18, 19} THEN Top ELSE 300 + 5 * (i % 24)
      [] kind = "spike" -> IF i % 30 = 9 THEN Top ELSE 0

NoExtra == [x \in {} |-> 0]
Extras == {NoExtra, [temperature |-> 31]}

\* the points of a request body: one per hour, starting at midnight; extra
\* holds the keys of the JSON object other than the five fields of
\* EnergyDataPoint.  The day columns are constant, so hour is the only
\* regressor that varies (OLSPredict)
Points(n, kind, extra) ==
    [k \in 1 .. n |-> [consumption |-> Shape(kind, k - 1),
                       hour        |-> (k - 1) % 24,
                       dayofweek   |-> 2,
                       dayofyear   |-> 100,
                       month       |-> 4,
                       extra       |-> extra]]

\* EnergyDataPoint(**obj): the model declares consumption, hour, dayofweek,
\* month and dayofyear and no Config, so the other keys of the JSON object are
\* ignored and the instance has no attribute for them
EnergyDataPoint(obj) == [obj EXCEPT !.extra = NoExtra]

\* request.data: List[EnergyDataPoint] parsed from the request body
RequestData(body) == [k \in 1 .. Len(body) |-> EnergyDataPoint(body[k])]

ListOps == {"moving_average", "exponential_smoothing", "holt_winters",
            "seasonal_decomposition_forecast", "arima_simple"}
FrameOps == {"linear_regression_forecast", "ensemble_forecast"}
Ops == ListOps \cup FrameOps \cup {"enhanced_prediction"}

\* the argument of a call of op for the given series
Argument(op, n, kind, extra) ==
    IF op = "enhanced_prediction" THEN RequestData(Points(n, kind, extra))
    ELSE IF op \in FrameOps THEN Frame(Points(n, kind, extra))
    ELSE Column(Frame(Points(n, kind, extra)), "consumption")

\* np.mean of an empty list is nan and an empty frame has no columns: the
\* direct calls that would take the mean of nothing are left out
Callable(op, n) ==
    \/ op \in {"enhanced_prediction", "exponential_smoothing", "holt_winters"}
    \/ n >= 1

-----------------------------------------------------------------------------
(* State *)

VARIABLES
    scaler,   \* self.scaler of the shared forecasting_algorithms instance
    pc,       \* "idle", "ready" (a call is about to be made) or "done"
    op,       \* the function being called
    arg,      \* the argument object, as it is now
    arg0,     \* the argument as it was when the call started
    ret,      \* the value returned by the last call
    err,      \* the exception raised by the last call, or "none"
    trace,    \* the branches taken and the subscripts evaluated by the last call
    request,  \* the points of the request body the argument was parsed from
    df,       \* the frame enhanced_prediction built for the combiner
    used      \* TRUE when the shared instance has served a call before this one

vars == <<scaler, pc, op, arg, arg0, ret, err, trace, request, df, used>>

\* StandardScaler(): constructed, never fitted
StandardScaler == [fitted |-> FALSE]

Init ==
    /\ scaler = StandardScaler
    /\ pc = "idle"
    /\ op = "none"
    /\ arg = <<>>
    /\ arg0 = <<>>
    /\ ret = 0
    /\ err = "none"
    /\ trace = NoTrace
    /\ request = <<>>
    /\ df = <<>>
    /\ used = FALSE

\* a caller builds the argument of its next call
Prepare(o, n, kind, extra) ==
    /\ pc = "idle"
    /\ Callable(o, n)
    /\ pc' = "ready"
    /\ op' = o
    /\ arg' = Argument(o, n, kind, extra)
    /\ arg0' = Argument(o, n, kind, extra)
    /\ ret' = 0
    /\ err' = "none"
    /\ trace' = NoTrace
    /\ request' = IF o = "enhanced_prediction" THEN Points(n, kind, extra) ELSE <<>>
    /\ df' = <<>>
    /\ UNCHANGED <<scaler, used>>

\* variant: the regression fits self.scaler
ScalerAfter_fit(o) ==
    IF o \in {"linear_regression_forecast", "ensemble_forecast"}
    THEN [fitted |-> TRUE]
    ELSE scaler

\* self.scaler after a call: no method assigns or fits it
ScalerAfter(o) == scaler

\* a call of o that returns value and leaves its argument as `after`, or
\* ends with IndexError at a subscript out of bounds
Returns(o, value, after) ==
    /\ pc = "ready"
    /\ op = o
    /\ pc' = "done"
    /\ trace' = Trace(o, arg)
    /\ IF Raises(Trace(o, arg))
       THEN /\ ret' = <<>>
            /\ err' = "IndexError"
            /\ arg' = arg
       ELSE /\ ret' = value
            /\ err' = "none"
            /\ arg' = after
    /\ scaler' = ScalerAfter(o)
    /\ UNCHANGED <<op, arg0, request, df, used>>

CallMovingAverage == Returns("moving_average", moving_average(arg), arg)

CallExponentialSmoothing ==
    Returns("exponential_smoothing", exponential_smoothing(arg, alpha), arg)

CallHoltWinters == Returns("holt_winters", holt_winters(arg), HWData(arg))

CallLinearRegression ==
    Returns("linear_regression_forecast", linear_regression_forecast(arg), LRData(arg))

CallSeasonalDecomposition ==
    Returns("seasonal_decomposition_forecast", seasonal_decomposition_forecast(arg), arg)

CallArima == Returns("arima_simple", arima_simple(arg), arg)

CallEnsemble == Returns("ensemble_forecast", ensemble_forecast(arg), EnsembleData(arg))

CallEnhancedPrediction ==
    /\ pc = "ready"
    /\ op = "enhanced_prediction"
    /\ pc' = "done"
    /\ LET outcome == enhanced_prediction(arg)
       IN  /\ ret' = outcome.result
           /\ err' = outcome.error
           /\ trace' = outcome.trace
           /\ df' = outcome.df
    /\ scaler' = ScalerAfter("ensemble_forecast")
    /\ UNCHANGED <<op, arg, arg0, request, used>>

\* the caller takes the result; the call's objects are dropped
Finish ==
    /\ pc = "done"
    /\ pc' = "idle"
    /\ op' = "none"
    /\ arg' = <<>>
    /\ arg0' = <<>>
    /\ ret' = 0
    /\ err' = "none"
    /\ trace' = NoTrace
    /\ request' = <<>>
    /\ df' = <<>>
    /\ used' = TRUE
    /\ UNCHANGED scaler

Next ==
    \/ \E o \in Ops, n \in Lengths, kind \in Shapes, extra \in Extras :
           Prepare(o, n, kind, extra)
    \/ CallMovingAverage
    \/ CallExponentialSmoothing
    \/ CallHoltWinters
    \/ CallLinearRegression
    \/ CallSeasonalDecomposition
    \/ CallArima
    \/ CallEnsemble
    \/ CallEnhancedPrediction
    \/ Finish

Spec == Init /\ [][Next]_vars

-----------------------------------------------------------------------------
(* Properties *)

\* a call of the combiner has returned an EnsembleResult
EnsembleDone ==
    /\ pc = "done"
    /\ op \in {"ensemble_forecast", "enhanced_prediction"}
    /\ err = "none"

\* the consumption values of the series the combiner was called with
Consumption == [k \in 1 .. Len(arg0) |-> arg0[k].consumption]

\* the six predictions of the returned result, as a set
PredictionValues == {ret.individual_predictions[m] : m \in MethodSet}

\* C1: enhanced_prediction raises the insufficient-data error (and returns no
\* EnsembleResult) for every series of fewer than 10 points, the empty one
\* included, and raises nothing for a series of 10 or more points.
C1_InsufficientData ==
    (pc = "done" /\ op = "enhanced_prediction") =>
        /\ (Len(arg0) < 10) => (err = "ValueError" /\ DOMAIN ret = {})
        /\ (Len(arg0) >= 10) => (err = "none" /\ "ensemble_prediction" \in DOMAIN ret)

C1_Witness ==
    /\ pc = "done"
    /\ op = "enhanced_prediction"
    /\ Len(arg0) = 9
    /\ err = "ValueError"

\* C2: for a series of at least 10 points whose consumption values are all
\* >= 0, each of the six predictions in the result is >= 0.
C2_PredictionsNonNegative ==
    (/\ EnsembleDone
     /\ Len(arg0) >= 10
     /\ \A k \in 1 .. Len(arg0) : Consumption[k] >= 0)
        => \A m \in MethodSet : ret.individual_predictions[m] >= 0

\* C3: for a series of at least 10 points the ensemble prediction lies between
\* the smallest and the largest of the six predictions of the same result.
C3_EnsembleInHull ==
    (EnsembleDone /\ Len(arg0) >= 10) =>
        /\ \E v \in PredictionValues : v <= ret.ensemble_prediction
        /\ \E v \in PredictionValues : ret.ensemble_prediction <= v

C3_Witness ==
    /\ EnsembleDone
    /\ Len(arg0) >= 10
    /\ \E v \in PredictionValues : v < ret.ensemble_prediction
    /\ \E v \in PredictionValues : ret.ensemble_prediction < v

\* C4: in every result the interval contains the ensemble prediction, is
\* symmetric about it with half-width 1.96 * prediction_variance, and is the
\* single point ensemble_prediction exactly when the six predictions are all
\* equal, which is exactly when prediction_variance is 0.
C4_ConfidenceInterval ==
    EnsembleDone =>
        LET e  == ret.ensemble_prediction
            lo == ret.confidence_interval.lower
            up == ret.confidence_interval.upper
            hw == RoundDiv(196 * ret.prediction_variance, 100)
        IN  /\ lo <= e /\ e <= up
            /\ e - lo = hw /\ up - e = hw
            /\ (lo = e /\ up = e) <=> (Cardinality(PredictionValues) = 1)
            /\ (ret.prediction_variance = 0) <=> (Cardinality(PredictionValues) = 1)

C4_Witness ==
    /\ EnsembleDone
    /\ Cardinality(PredictionValues) = 1
    /\ ret.confidence_interval.lower = ret.ensemble_prediction
    /\ ret.confidence_interval.upper = ret.ensemble_prediction

C4_WitnessSpread ==
    /\ EnsembleDone
    /\ ret.prediction_variance > 0
    /\ ret.confidence_interval.lower < ret.ensemble_prediction

\* C5: for a constant series of value c >= 0 with at least 72 points each of
\* the six algorithms predicts c, the ensemble prediction is c and
\* prediction_variance is 0.
C5_ConstantSeries ==
    (/\ EnsembleDone
     /\ Len(arg0) >= 3 * period
     /\ Consumption[1] >= 0
     /\ \A k \in 1 .. Len(arg0) : Consumption[k] = Consumption[1])
        => /\ \A m \in MethodSet : ret.individual_predictions[m] = Consumption[1]
           /\ ret.ensemble_prediction = Consumption[1]
           /\ ret.prediction_variance = 0

C5_Witness ==
    /\ EnsembleDone
    /\ Len(arg0) >= 3 * period
    /\ Consumption[1] = Top
    /\ \A k \in 1 .. Len(arg0) : Consumption[k] = Top
    /\ ret.ensemble_prediction = Top

C7_HoltWintersShort ==
    (pc = "done" /\ op = "holt_winters") =>
        IF Len(arg0) < 48
        THEN ret = exponential_smoothing(arg0, <<3, 10>>)
        ELSE ret = HWRecurrence(arg0)

C7_Witness ==
    /\ pc = "done"
    /\ op = "holt_winters"
    /\ Len(arg0) = 47
    /\ arg0[1] # arg0[47]
    /\ ret = exponential_smoothing(arg0, <<3, 10>>)

\* C8: moving_average returns the mean of the whole series when it has fewer
\* than 24 points and the mean of the last 24 points when it has 24 or more;
\* for the values 1.00, 2.00, ..., 24.00 it returns 12.50.
C8_MovingAverage ==
    (pc = "done" /\ op = "moving_average") =>
        LET n == Len(arg0)
        IN  /\ (n < 24) => ret = RoundDiv(Sum(arg0), n)
            /\ (n >= 24) => ret = RoundDiv(Sum(SubSeq(arg0, n - 23, n)), 24)
            /\ (arg0 = [k \in 1 .. 24 |-> 100 * k]) => ret = 1250

C8_Witness ==
    /\ pc = "done"
    /\ op = "moving_average"
    /\ arg0 = [k \in 1 .. 24 |-> 100 * k]
    /\ ret = 1250

\* C9: the weight table has the six algorithm names as keys, the keys of the
\* predictions, with the weights 0.15, 0.20, 0.25, 0.20, 0.15, 0.05, which are
\* non-negative and sum to 1.00; the ensemble prediction is the sum over the
\* six algorithms of weight times prediction, each counted once.
C9_WeightedSum ==
    EnsembleDone =>
        LET w  == ret.algorithm_weights
            pr == ret.individual_predictions
        IN  /\ w = [moving_average |-> 15, exponential_smoothing |-> 20,
                    holt_winters |-> 25, linear_regression |-> 20,
                    seasonal_decomposition |-> 15, arima |-> 5]
            /\ DOMAIN w = DOMAIN pr
            /\ Cardinality(DOMAIN w) = 6
            /\ \A m \in DOMAIN w : w[m] >= 0
            /\ w.moving_average + w.exponential_smoothing + w.holt_winters
                 + w.linear_regression + w.seasonal_decomposition + w.arima = 100
            /\ ret.ensemble_prediction =
                 RoundDiv(w.moving_average * pr.moving_average
                          + w.exponential_smoothing * pr.exponential_smoothing
                          + w.holt_winters * pr.holt_winters
                          + w.linear_regression * pr.linear_regression
                          + w.seasonal_decomposition * pr.seasonal_decomposition
                          + w.arima * pr.arima, 100)

C9_Witness ==
    /\ EnsembleDone
    /\ Cardinality(PredictionValues) = 6
    /\ ret.individual_predictions.moving_average > 0

\* C10: no call changes its input: when a forecaster or the combiner has
\* returned, the series or feature table it was given has the length and the
\* values it had when the call started.
C10_InputUnchanged == (pc = "done") => (arg = arg0)

C10_Witness ==
    /\ pc = "done"
    /\ op = "linear_regression_forecast"
    /\ Len(arg0) >= 10
    /\ arg0[Len(arg0)].hour = 23
    /\ arg = arg0

\* a call of the combiner has ended, with a result or with an exception
EnsembleEnded ==
    /\ pc = "done"
    /\ op \in {"ensemble_forecast", "enhanced_prediction"}

\* C11: for every series of at least 10 points the combiner raises nothing and
\* returns a prediction for each of the six algorithms; every subscript it
\* evaluates (seasonal[i % 24] in Holt-Winters, seasonal[len % 24] and
\* trend[-2] in the seasonal decomposition, diff[-i] in ARIMA among them) is
\* within the bounds of its list; and an algorithm takes its short-series
\* fallback exactly when the length is below its threshold: 24 for the moving
\* average, 48 for Holt-Winters, 10 for the regression, 72 for the seasonal
\* decomposition, 2 for ARIMA.
C11_NoRaiseAndFallbacks ==
    (EnsembleEnded /\ Len(arg0) >= 10) =>
        LET n     == Len(arg0)
            names == {"moving_average", "exponential_smoothing", "holt_winters",
                      "arima", "linear_regression", "seasonal_decomposition"}
        IN  /\ err = "none"
            /\ DOMAIN ret.individual_predictions = names
            /\ \A acc \in trace.accesses :
                   -acc.len <= acc.index /\ acc.index < acc.len
            /\ (n >= 48) =>
                   \A i \in 24 .. n - 1 :
                       Acc("hw_seasonal", 24, i % 24) \in trace.accesses
            /\ (n >= 72) =>
                   /\ Acc("sd_seasonal", 24, n % 24) \in trace.accesses
                   /\ Acc("trend", n, -2) \in trace.accesses
            /\ Acc("diff_data", n - 1, -1) \in trace.accesses
            /\ DOMAIN trace.path = names
            /\ (trace.path.moving_average = "fallback") <=> (n < 24)
            /\ (trace.path.holt_winters = "fallback") <=> (n < 48)
            /\ (trace.path.linear_regression = "fallback") <=> (n < 10)
            /\ (trace.path.seasonal_decomposition = "fallback") <=> (n < 72)
            /\ (trace.path.arima = "fallback") <=> (n < 2)

C11_Witness ==
    /\ EnsembleEnded
    /\ Len(arg0) = 59
    /\ err = "none"
    /\ trace.path.holt_winters = "main"
    /\ trace.path.seasonal_decomposition = "fallback"
    /\ Acc("hw_seasonal", 24, 58 % 24) \in trace.accesses
    /\ DOMAIN ret.individual_predictions = MethodSet

\* C12: a point of the request that carries a temperature or a humidity has
\* that value, unchanged, in its row of the frame built for the regression;
\* only a point that lacks the value gets the default 20 or 50; and a missing
\* value raises nothing.
C12_OptionalAttributes ==
    (pc = "done" /\ op = "enhanced_prediction" /\ Len(request) >= 10) =>
        /\ err = "none"
        /\ Len(df) = Len(request)
        /\ \A k \in 1 .. Len(request) :
               /\ df[k].temperature =
                      IF "temperature" \in DOMAIN request[k].extra
                      THEN request[k].extra.temperature ELSE 20
               /\ df[k].humidity =
                      IF "humidity" \in DOMAIN request[k].extra
                      THEN request[k].extra.humidity ELSE 50

\* C13: in the seasonal decomposition of a series of n >= 72 values, trend[i]
\* is, at every position i, the mean of a window of consecutive series values
\* around i that holds at most period = 24 values and is clipped to [0, n);
\* at an interior position (12 <= i <= n - 13) the window holds exactly 24
\* values.
C13_TrendWindow ==
    (pc = "done" /\ op = "seasonal_decomposition_forecast" /\ Len(arg0) >= 72) =>
        LET n == Len(arg0)
        IN  /\ Len(trace.trend) = n
            /\ \A i \in 0 .. n - 1 :
                   LET w == trace.trend[i + 1]
                   IN  /\ 0 <= w.start /\ w.start <= i
                       /\ i < w.end /\ w.end <= n
                       /\ w.value = RoundDiv(Sum(SubSeq(arg0, w.start + 1, w.end)),
                                             w.end - w.start)
                       /\ w.end - w.start <= 24
                       /\ (12 <= i /\ i <= n - 13) => (w.end - w.start = 24)

\* C14: for a series x of 48 or more values Holt-Winters starts from
\* level = mean(x[0..23]), trend = (mean(x[24..47]) - mean(x[0..23])) / 24 and
\* seasonal[i] = x[i] - level; iteration i = 24, 25, ... computes the new level
\* from the old seasonal[i % 24] and the old level + trend, then the new trend
\* from the new and the previous level, then seasonal[i % 24] from the new
\* level (alpha = 0.3, beta = gamma = 0.1); the value returned is the final
\* level + trend + seasonal[0], slot 0 for every length.
C14_HoltWintersRecurrence ==
    (pc = "done" /\ op = "holt_winters" /\ Len(arg0) >= 48) =>
        LET n     == Len(arg0)
            x     == [i \in 0 .. n - 1 |-> arg0[i + 1]]
            h     == trace.hw
            sum0  == Sum(SubSeq(arg0, 1, 24))
            sum1  == Sum(SubSeq(arg0, 25, 48))
        IN  /\ DOMAIN h = 24 .. n
            /\ h[24].level = RoundDiv(sum0, 24)
            /\ h[24].trend = RoundDiv(sum1 - sum0, 24 * 24)
            /\ h[24].seasonal = [i \in 0 .. 23 |-> x[i] - h[24].level]
            /\ \A i \in 24 .. n - 1 :
                   LET old   == h[i]
                       new   == h[i + 1]
                       level == RoundDiv(3 * (x[i] - old.seasonal[i % 24])
                                         + 7 * (old.level + old.trend), 10)
                       trend == RoundDiv((level - old.level) + 9 * old.trend, 10)
                       seas  == RoundDiv((x[i] - level) + 9 * old.seasonal[i % 24], 10)
                   IN  /\ new.level = level
                       /\ new.trend = trend
                       /\ new.seasonal = [old.seasonal EXCEPT ![i % 24] = seas]
            /\ ret = h[n].level + h[n].trend + h[n].seasonal[0]

C14_Witness ==
    /\ pc = "done"
    /\ op = "holt_winters"
    /\ Len(arg0) = 50
    /\ DOMAIN trace.hw = 24 .. 50
    /\ trace.hw[50].seasonal[0] # trace.hw[50].seasonal[50 % 24]
    /\ trace.hw[50].trend # trace.hw[24].trend
    /\ ret = trace.hw[50].level + trace.hw[50].trend + trace.hw[50].seasonal[0]

\* C15: with p = d = q = 1 arima_simple returns, for a series of 2 or more
\* values, max(0, last + 0.5 * (last - previous)), last and previous being
\* the final two values of the series; for a series of one value it returns
\* the mean of the series; and no call, direct or from the combiner, takes
\* the branch that returns the last value unchanged.
C15_SimpleArima ==
    /\ (pc = "done" /\ op = "arima_simple") =>
           LET n == Len(arg0)
           IN  /\ (n >= 2) =>
                      LET last     == arg0[n]
                          previous == arg0[n - 1]
                          value    == RoundDiv(2 * last + (last - previous), 2)
                      IN  ret = IF value > 0 THEN value ELSE 0
               /\ (n = 1) => ret = arg0[1]
    /\ (pc = "done" /\ "arima" \in DOMAIN trace.path) => trace.path.arima # "last"

C15_Witness ==
    /\ pc = "done"
    /\ op = "arima_simple"
    /\ Len(arg0) >= 3
    /\ arg0[Len(arg0)] - arg0[Len(arg0) - 1] # arg0[2] - arg0[1]
    /\ trace.path.arima = "main"
    /\ ret > 0
    /\ ret = RoundDiv(3 * arg0[Len(arg0)] - arg0[Len(arg0) - 1], 2)

=============================================================================
